---- MODULE Spec2Model ----
(***************************************************************************)
(* Model of the GraphQL subscription client (SubscriptionClient): the      *)
(* subscription registry, the connection lifecycle (init with bounded      *)
(* retry), the Run loop that reads and dispatches frames, and Reset/Close.    *)
(*                                                                         *)
(* The Run goroutine (the pump) advances one step at a time; the calls a   *)
(* caller makes from other goroutines (Subscribe, Unsubscribe, Close) are  *)
(* each one action and may fall between any two pump steps.  The server    *)
(* and the network are the environment: they choose the outcome of every   *)
(* dial, every WriteJSON and every ReadJSON.                               *)
(*                                                                         *)
(* SpecConc and SpecReset look at the same client with the goroutines      *)
(* taken statement by statement where they share fields of the client.     *)
(***************************************************************************)
EXTENDS Integers, FiniteSets, Sequences, TLC

\* ---------------------------------------------------------------- bounds
MaxIds == 2            \* ids uuid.New() hands out in one run
MaxHandlers == 1       \* handler goroutines alive at one time
MaxConns == 2          \* connections the dialer produces
MaxRetryTimeout == 1   \* largest retryTimeout tried, in seconds
MaxAttemptDur == 1     \* longest time one connect attempt takes, in seconds
MaxFrames == 2         \* data frames handed to handlers in one run

\* time.Sleep(time.Second) between two connect attempts
SleepInterval == 1

\* ------------------------------------------------------------ identifiers
\* A uuid is a number; an id string on the wire or in a call is a uuid
\* written in its canonical form (what uuid.String() prints), written in
\* another form uuid.Parse accepts (upper case, urn:uuid: prefix, braces),
\* or a string that is no uuid at all.
Uuids == 1..MaxIds
BadId == [u |-> 0, form |-> "bad"]
NoId == [u |-> 0, form |-> "none"]
WireIds == [u : Uuids, form : {"canon", "alt"}] \cup {BadId}
CanonIds == [u : Uuids, form : {"canon"}]
NoUuid == 0

\* uuid.Parse: the uuid a string denotes, or an error
uuidParse(ID) == IF ID.form \in {"canon", "alt"} THEN ID.u ELSE NoUuid

\* UUID.String(): the canonical string of a uuid
uuidString(u) == [u |-> u, form |-> "canon"]

\* ReadJSON errors: whether err is io.EOF, whether err.Error() contains
\* "EOF", and what websocket.CloseStatus(err) returns (-1 is "none").
ReadErrs ==
    { e \in [isEOF : BOOLEAN, text : BOOLEAN, status : {"none", "normal", "abnormal"}] :
        e.isEOF => (e.text /\ e.status = "none") }

FrameTypes == {"data", "error", "complete", "connection_ack", "ka"}

VARIABLES
    subscriptions,  \* sc.subscriptions: id string -> [started, restarting]
    conn,           \* sc.conn: 0 is nil, n > 0 is the n-th connection dialled
    isRunning,      \* sc.isRunning
    ctx,            \* sc.context / sc.cancel: "none", "live", "cancelled"
    retryTimeout,   \* sc.retryTimeout, in seconds
    pc,             \* where the Run goroutine is
    elapsed,        \* time.Now() - now in init()
    attempts,       \* connect attempts the current init() has made
    todo,           \* keys the range loop of Run has still to visit
    runResult,      \* what Run returned
    spawned,        \* handler goroutines started and not yet run
    errWaiting,     \* handler goroutines blocked on sc.errorChan <- err
    starts,         \* start frames written on the connection in sc.conn, by uuid
    nextId,         \* uuids generated so far
    completed,      \* ids a complete frame removed from the registry
    dials,          \* connections dialled so far
    disconnectedCalls, \* times init() reached its call of onDisconnected
    regPreRun,      \* ids registered before Run was called
    cancPreRun,     \* ids cancelled before Run was called
    ev,             \* the step just taken: operation, argument, result
    crashed         \* a goroutine panicked: the process is gone

vars == <<subscriptions, conn, isRunning, ctx, retryTimeout, pc, elapsed,
          attempts, todo, runResult, spawned, errWaiting, starts,
          nextId, completed, dials, disconnectedCalls, regPreRun,
          cancPreRun, ev, crashed>>

\* what the step-by-step view of the goroutines adds (see SpecConc)
VARIABLES
    createConn,     \* sc.createConn: "default" or the "custom" one of WithWebSocket
    dialers,        \* the constructors init() has called to get a connection
    tpc,            \* where each goroutine is
    tres,           \* what Run (or Reset) returned in each goroutine that runs it
    rconn,          \* the connection each goroutine's ReadJSON is blocked on
    queued,         \* handler goroutines started by "go" and not yet scheduled
    nread,          \* data frames read and handed to a handler so far
    pendStarted,    \* sub.started of the record a Subscribe under way holds
    sentOn,         \* the connection the last start frame of each uuid was written on
    closedAt,       \* where the Run goroutine was when Close was called
    touched         \* what the step just taken did: statements on the registry,
                    \* socket and handler calls, a method call on a nil sc.conn

cvars == <<createConn, dialers, tpc, tres, rconn, queued, nread,
           pendStarted, sentOn, closedAt, touched>>

\* the goroutines: the one that calls Run, one that calls Reset, one that
\* calls Subscribe and one that calls Close
PumpTasks == {"run", "rst"}
Tasks == PumpTasks \cup {"sub", "cls"}

\* the values of these while no goroutine is looked at step by step
ConcIdle ==
    /\ dialers = {}
    /\ tpc = [t \in Tasks |-> "idle"]
    /\ tres = [t \in PumpTasks |-> "none"]
    /\ rconn = [t \in PumpTasks |-> 0]
    /\ queued = {}
    /\ nread = 0
    /\ pendStarted = FALSE
    /\ sentOn = [u \in Uuids |-> 0]
    /\ closedAt = "no"
    /\ touched = {}

\* the step just taken: the operation, its id argument, what it returned,
\* the number of WriteJSON calls it made, and for a failed ReadJSON the
\* close status of the error
Event(op, id, ret, w) == [op |-> op, id |-> id, ret |-> ret, w |-> w, status |-> "ok"]
ReadEvent(op, id, ret, w, e) == [op |-> op, id |-> id, ret |-> ret, w |-> w, status |-> e.status]

Keys == DOMAIN subscriptions

\* the connections Close() was called on: Reset and Close close sc.conn
\* and set it to nil in one go, so these are all but the one sc.conn holds
closedConns == (1..dials) \ {conn}

\* a fresh subscription record (createSubscription)
NewSub == [started |-> FALSE, restarting |-> FALSE]

\* delete(sc.subscriptions, id)
Delete(subs, id) == [k \in (DOMAIN subs) \ {id} |-> subs[k]]

\* sc.subscriptions[id] = &sub
Insert(subs, id, sub) == [k \in (DOMAIN subs) \cup {id} |-> IF k = id THEN sub ELSE subs[k]]

\* mutant: the frame is written but the subscription is not marked started
Started_NotMarked(sub) == [sub EXCEPT !.restarting = FALSE]

\* the flags startSubscription leaves after conn.WriteJSON returned nil
Started(sub) == [sub EXCEPT !.started = TRUE, !.restarting = FALSE]

\* one more start frame for id
CountStart(s, id) == [s EXCEPT ![id.u] = @ + 1]

\* start frames written for id on the connection in sc.conn
StartsOf(id) == starts[id.u]

Init ==
    /\ subscriptions = << >>
    /\ conn = 0
    /\ isRunning = FALSE
    /\ ctx = "none"
    /\ retryTimeout \in 0..MaxRetryTimeout
    /\ pc = "idle"
    /\ elapsed = 0
    /\ attempts = 0
    /\ todo = {}
    /\ runResult = "none"
    /\ spawned = 0
    /\ errWaiting = 0
    /\ starts = [u \in Uuids |-> 0]
    /\ nextId = 0
    /\ completed = {}
    /\ dials = 0
    /\ disconnectedCalls = 0
    /\ regPreRun = {}
    /\ cancPreRun = {}
    /\ ev = Event("new", NoId, "nil", 0)
    /\ crashed = FALSE
    /\ createConn = "default"
    /\ ConcIdle

\* ------------------------------------------------------- init(), line 208
\* mutant: the budget counts as spent when it is merely reached
RetryExpired_AtBudget(t, budget) == t >= budget

\* now.Add(sc.retryTimeout).Before(time.Now())
RetryExpired(t, budget) == t > budget

\* Run() is called: init() takes the time and makes the lifecycle context.
RunCall ==
    /\ ~crashed
    /\ UNCHANGED cvars
    /\ pc = "idle"
    /\ pc' = "init"
    /\ elapsed' = 0
    /\ attempts' = 0
    /\ ctx' = "live"
    /\ ev' = Event("Run", NoId, "nil", 0)
    /\ UNCHANGED <<subscriptions, conn, isRunning, retryTimeout, todo,
                   runResult, spawned, errWaiting, starts, nextId, completed,
                   dials, disconnectedCalls, regPreRun, cancPreRun, crashed>>

\* One turn of the for loop of init(): dial unless sc.conn is already set,
\* send connection_init, and on failure either give up or sleep a second.
\* d is the time the attempt took.
InitAttempt(d, dialOk, initOk) ==
    /\ ~crashed
    /\ UNCHANGED cvars
    /\ pc = "init"
    /\ dialOk => dials < MaxConns
    /\ (conn = 0 /\ ~dialOk) => initOk
    /\ LET needDial == conn = 0
           dialErr == needDial /\ ~dialOk
           conn1 == IF needDial /\ dialOk THEN dials + 1 ELSE conn
           err == dialErr \/ ~initOk
           t == elapsed + d
           w == IF dialErr THEN 0 ELSE 1
       IN /\ conn' = conn1
          /\ dials' = IF needDial /\ dialOk THEN dials + 1 ELSE dials
          /\ starts' = IF needDial /\ dialOk THEN [u \in Uuids |-> 0] ELSE starts
          /\ attempts' = IF err THEN attempts + 1 ELSE 0
          /\ IF ~err
               THEN /\ pc' = "startAll"
                    /\ todo' = Keys
                    /\ elapsed' = 0
                    /\ ev' = Event("init", NoId, "nil", w)
                    /\ UNCHANGED <<runResult, disconnectedCalls>>
               ELSE IF RetryExpired(t, retryTimeout)
                 THEN /\ pc' = "done"
                      /\ runResult' = "retryTimeout"
                      /\ disconnectedCalls' = disconnectedCalls + 1
                      /\ elapsed' = t
                      /\ ev' = Event("init", NoId, "giveup", w)
                      /\ todo' = todo
                 ELSE /\ elapsed' = t + SleepInterval
                      /\ ev' = Event("init", NoId, "retry", w)
                      /\ UNCHANGED <<pc, todo, runResult, disconnectedCalls>>
    /\ UNCHANGED <<subscriptions, isRunning, ctx, retryTimeout, spawned,
                   errWaiting, nextId, completed, regPreRun, cancPreRun,
                   crashed>>

\* ------------------------------------------- Run(), lines 372-379: start all
\* One turn of "for k, v := range sc.subscriptions": startSubscription(k, v),
\* and on a failed send Unsubscribe(k) and return the error.
StartNext(k, ok, stopOk) ==
    /\ ~crashed
    /\ UNCHANGED cvars
    /\ pc = "startAll"
    /\ k \in todo \cap Keys
    /\ todo' = todo \ {k}
    /\ IF subscriptions[k].started
         THEN /\ ok /\ stopOk
              /\ ev' = Event("start", k, "skip", 0)
              /\ UNCHANGED <<subscriptions, starts, pc, runResult, crashed>>
         ELSE IF conn = 0
           THEN /\ ok /\ stopOk
                /\ crashed' = TRUE
                /\ ev' = Event("start", k, "panic", 0)
                /\ UNCHANGED <<subscriptions, starts, pc, runResult>>
           ELSE IF ok
             THEN /\ stopOk
                  /\ subscriptions' = [subscriptions EXCEPT ![k] = Started(@)]
                  /\ starts' = CountStart(starts, k)
                  /\ ev' = Event("start", k, "nil", 1)
                  /\ UNCHANGED <<pc, runResult, crashed>>
             ELSE /\ subscriptions' = Delete(subscriptions, k)
                  /\ pc' = "done"
                  /\ runResult' = "sendErr"
                  /\ ev' = Event("start", k, "err", 2)
                  /\ UNCHANGED <<starts, crashed>>
    /\ UNCHANGED <<conn, isRunning, ctx, retryTimeout, elapsed, attempts,
                   spawned, errWaiting, nextId, completed, dials,
                   disconnectedCalls, regPreRun, cancPreRun>>

\* The range loop is over: sc.setIsRunning(true) and enter the for loop.
StartAllDone ==
    /\ ~crashed
    /\ UNCHANGED cvars
    /\ pc = "startAll"
    /\ todo \cap Keys = {}
    /\ isRunning' = TRUE
    /\ pc' = "loop"
    /\ todo' = {}
    /\ ev' = Event("startAllDone", NoId, "nil", 0)
    /\ UNCHANGED <<subscriptions, conn, ctx, retryTimeout, elapsed, attempts,
                   runResult, spawned, errWaiting, starts, nextId, completed,
                   dials, disconnectedCalls, regPreRun, cancPreRun, crashed>>

\* ------------------------------------------------ registry operations
\* mutant: any id that parses as a uuid finds a subscription
findSubscription_AnyUuid(subs, ID) == uuidParse(ID) /= NoUuid

\* findSubscription, line 482: uuid.Parse(ID), then a lookup under the
\* canonical string of the parsed uuid.  TRUE when a subscription is found.
findSubscription(subs, ID) ==
    /\ uuidParse(ID) /= NoUuid
    /\ uuidString(uuidParse(ID)) \in DOMAIN subs

\* mutant: the id is parsed and put in canonical form before the lookup
Registered_Parsed(subs, ID) ==
    /\ uuidParse(ID) /= NoUuid
    /\ uuidString(uuidParse(ID)) \in DOMAIN subs

\* the lookup of Unsubscribe, line 451: the string as it was passed in
Registered(subs, ID) == ID \in DOMAIN subs

\* stopSubscription, line 464: a stop frame is written iff sc.conn is set
StopWrites(c) == IF c /= 0 THEN 1 ELSE 0

\* mutant: a failed stop frame returns before the delete
UnsubscribeSubs_KeepOnErr(subs, ID, c, stopOk) ==
    IF Registered(subs, ID) /\ ~(c /= 0 /\ ~stopOk) THEN Delete(subs, ID) ELSE subs

\* Unsubscribe, line 450: what is left of the registry.  The delete follows
\* stopSubscription whatever it returned.
UnsubscribeSubs(subs, ID, c, stopOk) ==
    IF Registered(subs, ID) THEN Delete(subs, ID) ELSE subs

\* mutant: the stop frame is written before the id is looked up
UnsubscribeWrites_BeforeLookup(subs, ID, c) == StopWrites(c)

\* Unsubscribe: the number of frames it writes
UnsubscribeWrites(subs, ID, c) == IF Registered(subs, ID) THEN StopWrites(c) ELSE 0

\* Unsubscribe: what it returns; stopOk is the outcome of the WriteJSON
UnsubscribeRet(subs, ID, c, stopOk) ==
    IF ~Registered(subs, ID) THEN "notfound"
    ELSE IF c /= 0 /\ ~stopOk THEN "err" ELSE "nil"

\* Reset, lines 513-517: every entry is flagged for replay
ResetSubs(subs) == [k \in DOMAIN subs |-> [started |-> FALSE, restarting |-> TRUE]]

\* the error branch of Run after ReadJSON failed, lines 394-414
ReadErrClass(e) ==
    IF e.isEOF \/ e.text THEN "reset"
    ELSE IF e.status = "normal" THEN "exit"
    ELSE IF e.status /= "none" THEN "reset"
    ELSE "policy"

\* --------------------------------------------------- Run(), lines 381-438
\* "for sc.isRunning" is false: Run returns nil.
LoopExit ==
    /\ ~crashed
    /\ UNCHANGED cvars
    /\ pc = "loop"
    /\ ~isRunning
    /\ pc' = "done"
    /\ runResult' = "nil"
    /\ ev' = Event("loopExit", NoId, "nil", 0)
    /\ UNCHANGED <<subscriptions, conn, isRunning, ctx, retryTimeout,
                   elapsed, attempts, todo, spawned, errWaiting, starts, nextId,
                   completed, dials, disconnectedCalls, regPreRun, cancPreRun,
                   crashed>>

\* case <-sc.context.Done(): return nil
LoopCtxDone ==
    /\ ~crashed
    /\ UNCHANGED cvars
    /\ pc = "loop"
    /\ isRunning
    /\ ctx = "cancelled"
    /\ pc' = "done"
    /\ runResult' = "nil"
    /\ ev' = Event("ctxDone", NoId, "nil", 0)
    /\ UNCHANGED <<subscriptions, conn, isRunning, ctx, retryTimeout,
                   elapsed, attempts, todo, spawned, errWaiting, starts, nextId,
                   completed, dials, disconnectedCalls, regPreRun, cancPreRun,
                   crashed>>

\* case e := <-sc.errorChan: the error policy decides.  policyErr: an
\* onError is set and returns an error.
LoopErrChan(policyErr) ==
    /\ ~crashed
    /\ UNCHANGED cvars
    /\ pc = "loop"
    /\ isRunning
    /\ errWaiting > 0
    /\ errWaiting' = errWaiting - 1
    /\ IF policyErr
         THEN /\ pc' = "done"
              /\ runResult' = "policyErr"
              /\ ev' = Event("errChan", NoId, "err", 0)
         ELSE /\ ev' = Event("errChan", NoId, "nil", 0)
              /\ UNCHANGED <<pc, runResult>>
    /\ UNCHANGED <<subscriptions, conn, isRunning, ctx, retryTimeout,
                   elapsed, attempts, todo, spawned, starts, nextId, completed,
                   dials, disconnectedCalls, regPreRun, cancPreRun, crashed>>

\* the default case is taken only when neither channel is ready
CanRead ==
    /\ ~crashed
    /\ pc = "loop"
    /\ isRunning
    /\ ctx = "live"
    /\ errWaiting = 0
    /\ conn /= 0

\* ReadJSON returned a data or error frame: runSubHandler, line 440
ReadData(type, ID) ==
    /\ CanRead
    /\ UNCHANGED cvars
    /\ type \in {"data", "error"}
    /\ findSubscription(subscriptions, ID) => spawned + errWaiting < MaxHandlers
    /\ completed' = completed
    /\ IF findSubscription(subscriptions, ID)
         THEN /\ spawned' = spawned + 1
              /\ ev' = Event(type, ID, "dispatched", 0)
         ELSE /\ spawned' = spawned
              /\ ev' = Event(type, ID, "dropped", 0)
    /\ UNCHANGED <<subscriptions, conn, isRunning, ctx, retryTimeout, pc,
                   elapsed, attempts, todo, runResult, errWaiting, starts, nextId,
                   dials, disconnectedCalls, regPreRun, cancPreRun, crashed>>

\* ReadJSON returned a complete frame: sc.Unsubscribe(message.ID), its
\* result dropped
ReadComplete(ID, stopOk) ==
    /\ CanRead
    /\ UNCHANGED cvars
    /\ completed' = IF Registered(subscriptions, ID) THEN completed \cup {ID} ELSE completed
    /\ (~Registered(subscriptions, ID)) => stopOk
    /\ subscriptions' = UnsubscribeSubs(subscriptions, ID, conn, stopOk)
    /\ ev' = Event("complete", ID, UnsubscribeRet(subscriptions, ID, conn, stopOk),
                   UnsubscribeWrites(subscriptions, ID, conn))
    /\ UNCHANGED <<conn, isRunning, ctx, retryTimeout, pc, elapsed, attempts,
                   todo, runResult, spawned, errWaiting, starts, nextId,
                   dials, disconnectedCalls, regPreRun, cancPreRun, crashed>>

\* ReadJSON returned connection_ack (onConnected runs), a keep-alive or
\* any other kind: no state of the client changes
ReadOther(type) ==
    /\ CanRead
    /\ UNCHANGED cvars
    /\ type \in {"connection_ack", "ka"}
    /\ completed' = completed
    /\ ev' = Event(type, NoId, "nil", 0)
    /\ UNCHANGED <<subscriptions, conn, isRunning, ctx, retryTimeout, pc,
                   elapsed, attempts, todo, runResult, spawned, errWaiting, starts,
                   nextId, dials, disconnectedCalls, regPreRun, cancPreRun,
                   crashed>>

\* ReadJSON failed and Run returns sc.Reset(), line 508: stop every
\* subscription and flag it, terminate and close the connection, cancel the
\* context, and call Run again, which starts init().
ReadReset(e) ==
    /\ CanRead
    /\ UNCHANGED cvars
    /\ e \in ReadErrs
    /\ ReadErrClass(e) = "reset"
    /\ completed' = completed
    /\ subscriptions' = ResetSubs(subscriptions)
    /\ conn' = 0
    /\ ctx' = "live"
    /\ pc' = "init"
    /\ elapsed' = 0
    /\ attempts' = 0
    /\ ev' = ReadEvent("Reset", NoId, "nil", (Cardinality(Keys) + 1) * StopWrites(conn), e)
    /\ UNCHANGED <<isRunning, retryTimeout, todo, runResult, spawned, errWaiting,
                   starts, nextId, dials, disconnectedCalls, regPreRun,
                   cancPreRun, crashed>>

\* ReadJSON failed with a normal closure: return nil
ReadExit(e) ==
    /\ CanRead
    /\ UNCHANGED cvars
    /\ e \in ReadErrs
    /\ ReadErrClass(e) = "exit"
    /\ completed' = completed
    /\ pc' = "done"
    /\ runResult' = "nil"
    /\ ev' = ReadEvent("readExit", NoId, "nil", 0, e)
    /\ UNCHANGED <<subscriptions, conn, isRunning, ctx, retryTimeout,
                   elapsed, attempts, todo, spawned, errWaiting, starts, nextId,
                   dials, disconnectedCalls, regPreRun, cancPreRun, crashed>>

\* ReadJSON failed with any other error: the error policy decides.
\* policyErr: an onError is set and returns an error.
ReadPolicy(e, policyErr) ==
    /\ CanRead
    /\ UNCHANGED cvars
    /\ e \in ReadErrs
    /\ ReadErrClass(e) = "policy"
    /\ completed' = completed
    /\ IF policyErr
         THEN /\ pc' = "done"
              /\ runResult' = "policyErr"
              /\ ev' = ReadEvent("readErr", NoId, "err", 0, e)
         ELSE /\ ev' = ReadEvent("readErr", NoId, "nil", 0, e)
              /\ UNCHANGED <<pc, runResult>>
    /\ UNCHANGED <<subscriptions, conn, isRunning, ctx, retryTimeout,
                   elapsed, attempts, todo, spawned, errWaiting, starts, nextId,
                   dials, disconnectedCalls, regPreRun, cancPreRun, crashed>>

\* ------------------------------------------------ wrapHandler, line 358
\* mutant: an error the handler returns is dropped, not sent on sc.errorChan
HandlerRun_DropErr(retErr) ==
    /\ ~crashed
    /\ UNCHANGED cvars
    /\ spawned > 0
    /\ spawned' = spawned - 1
    /\ errWaiting' = errWaiting
    /\ ev' = Event("handler", NoId, IF retErr THEN "err" ELSE "nil", 0)
    /\ UNCHANGED <<subscriptions, conn, isRunning, ctx, retryTimeout, pc,
                   elapsed, attempts, todo, runResult, starts, nextId, completed,
                   dials, disconnectedCalls, regPreRun, cancPreRun, crashed>>

\* A handler goroutine runs fn(message); an error it returns is sent on
\* sc.errorChan, where the goroutine waits for the pump to receive it.
HandlerRun(retErr) ==
    /\ ~crashed
    /\ UNCHANGED cvars
    /\ spawned > 0
    /\ spawned' = spawned - 1
    /\ errWaiting' = IF retErr THEN errWaiting + 1 ELSE errWaiting
    /\ ev' = Event("handler", NoId, IF retErr THEN "err" ELSE "nil", 0)
    /\ UNCHANGED <<subscriptions, conn, isRunning, ctx, retryTimeout, pc,
                   elapsed, attempts, todo, runResult, starts, nextId, completed,
                   dials, disconnectedCalls, regPreRun, cancPreRun, crashed>>

\* ------------------------------------------------ calls from other goroutines
\* mutant: the record is inserted whatever the send returned
createSubscriptionSubs_InsertAlways(subs, id, immediate, ok) ==
    IF immediate /\ ok THEN Insert(subs, id, Started(NewSub))
                       ELSE Insert(subs, id, NewSub)

\* createSubscription, line 300: the registry it leaves.  immediate is
\* "sc.isRunning && sc.conn != nil", ok the outcome of the start frame's
\* WriteJSON.
createSubscriptionSubs(subs, id, immediate, ok) ==
    IF immediate
      THEN IF ok THEN Insert(subs, id, Started(NewSub)) ELSE subs
      ELSE Insert(subs, id, NewSub)

\* Subscribe / NamedSubscribe / StringSubscribe.  visit: whether a range
\* loop of Run that is under way produces the new map entry.
Subscribe(ok, visit) ==
    /\ ~crashed
    /\ UNCHANGED cvars
    /\ nextId < MaxIds
    /\ LET id == uuidString(nextId + 1)
           immediate == isRunning /\ conn /= 0
           inserted == ~immediate \/ ok
       IN /\ (~immediate) => ok
          /\ visit => (pc = "startAll" /\ inserted)
          /\ subscriptions' = createSubscriptionSubs(subscriptions, id, immediate, ok)
          /\ starts' = IF immediate /\ ok THEN CountStart(starts, id) ELSE starts
          /\ todo' = IF visit THEN todo \cup {id} ELSE todo
          /\ regPreRun' = IF pc = "idle" THEN regPreRun \cup {id} ELSE regPreRun
          /\ ev' = Event("Subscribe", id, IF ok THEN "nil" ELSE "err", IF immediate THEN 1 ELSE 0)
    /\ nextId' = nextId + 1
    /\ UNCHANGED <<conn, isRunning, ctx, retryTimeout, pc, elapsed, attempts,
                   runResult, spawned, errWaiting, completed, dials,
                   disconnectedCalls, cancPreRun, crashed>>

\* Unsubscribe(id), line 450
Unsubscribe(ID, stopOk) ==
    /\ ~crashed
    /\ UNCHANGED cvars
    /\ ID \in WireIds
    /\ (~(Registered(subscriptions, ID) /\ conn /= 0)) => stopOk
    /\ subscriptions' = UnsubscribeSubs(subscriptions, ID, conn, stopOk)
    /\ cancPreRun' = IF pc = "idle" /\ Registered(subscriptions, ID)
                       THEN cancPreRun \cup {ID} ELSE cancPreRun
    /\ ev' = Event("Unsubscribe", ID, UnsubscribeRet(subscriptions, ID, conn, stopOk),
                   UnsubscribeWrites(subscriptions, ID, conn))
    /\ UNCHANGED <<conn, isRunning, ctx, retryTimeout, pc, elapsed, attempts,
                   todo, runResult, spawned, errWaiting, starts, nextId,
                   completed, dials, disconnectedCalls, regPreRun, crashed>>

\* Close(), line 530, when every Unsubscribe of its loop returns nil: the
\* connection is terminated and closed and the context cancelled.  Before
\* the first Run sc.cancel is nil and calling it panics.
CloseAll(closeOk) ==
    /\ ~crashed
    /\ UNCHANGED cvars
    /\ (conn = 0) => closeOk
    /\ isRunning' = FALSE
    /\ subscriptions' = << >>
    /\ conn' = 0
    /\ IF ctx = "none"
         THEN /\ crashed' = TRUE
              /\ ctx' = ctx
              /\ ev' = Event("Close", NoId, "panic", 0)
         ELSE /\ crashed' = crashed
              /\ ctx' = "cancelled"
              /\ ev' = Event("Close", NoId, IF closeOk THEN "nil" ELSE "err",
                                 (Cardinality(Keys) + 1) * StopWrites(conn))
    /\ cancPreRun' = IF pc = "idle" THEN cancPreRun \cup Keys ELSE cancPreRun
    /\ UNCHANGED <<retryTimeout, pc, elapsed, attempts, todo, runResult, spawned,
                   errWaiting, starts, nextId, completed, dials,
                   disconnectedCalls, regPreRun>>

\* Close() when the stop frame of one Unsubscribe fails, lines 533-536: the
\* subscriptions visited so far (done, then failed) are gone, the context
\* is cancelled and Close returns the error.
CloseStopFail(done, failed) ==
    /\ ~crashed
    /\ UNCHANGED cvars
    /\ conn /= 0
    /\ failed \in Keys
    /\ done \subseteq Keys \ {failed}
    /\ isRunning' = FALSE
    /\ subscriptions' = [k \in Keys \ (done \cup {failed}) |-> subscriptions[k]]
    /\ ctx' = "cancelled"
    /\ ev' = Event("Close", failed, "err", Cardinality(done) + 1)
    /\ UNCHANGED <<conn, retryTimeout, pc, elapsed, attempts, todo, runResult,
                   spawned, errWaiting, starts, nextId, completed, dials,
                   disconnectedCalls, regPreRun, cancPreRun, crashed>>

\* ------------------------------------------------------------ the system
Next ==
    \/ RunCall
    \/ \E d \in 0..MaxAttemptDur, dialOk \in BOOLEAN, initOk \in BOOLEAN :
          InitAttempt(d, dialOk, initOk)
    \/ \E k \in CanonIds, ok \in BOOLEAN, stopOk \in BOOLEAN : StartNext(k, ok, stopOk)
    \/ StartAllDone
    \/ LoopExit
    \/ LoopCtxDone
    \/ \E policyErr \in BOOLEAN : LoopErrChan(policyErr)
    \/ \E type \in FrameTypes, ID \in WireIds : ReadData(type, ID)
    \/ \E ID \in WireIds, stopOk \in BOOLEAN : ReadComplete(ID, stopOk)
    \/ \E type \in FrameTypes : ReadOther(type)
    \/ \E e \in ReadErrs : ReadReset(e)
    \/ \E e \in ReadErrs : ReadExit(e)
    \/ \E e \in ReadErrs, policyErr \in BOOLEAN : ReadPolicy(e, policyErr)
    \/ \E retErr \in BOOLEAN : HandlerRun(retErr)
    \/ \E ok \in BOOLEAN, visit \in BOOLEAN : Subscribe(ok, visit)
    \/ \E ID \in WireIds, stopOk \in BOOLEAN : Unsubscribe(ID, stopOk)
    \/ \E closeOk \in BOOLEAN : CloseAll(closeOk)
    \/ \E done \in SUBSET CanonIds, failed \in CanonIds : CloseStopFail(done, failed)

Spec == Init /\ [][Next]_vars

\* ===================================================== goroutines step by step
\* The same client with the goroutines taken one statement at a time where
\* they share sc.conn, sc.isRunning, sc.context and the registry: the Run
\* goroutine, a goroutine that calls Reset, one that calls Subscribe, one
\* that calls Close, and the handler goroutines "go sub.handler(message)"
\* starts.  Time is left out: whether the retry budget is spent when an
\* attempt fails is the clock's choice.

\* inside "for sc.isRunning { select ... }"
LoopPcs == {"top", "select", "read"}

\* init(), line 220: the constructor called when sc.conn is nil is
\* newWebsocketConn, whatever sc.createConn holds
DialFactory(cc) == "default"

\* the statements of a step that read or write sc.subscriptions
RegistryOps == {"lookup", "range", "insert", "delete"}

\* the calls of a step that must not be made with the lock held: WriteJSON,
\* ReadJSON and a handler
IoOps == {"send", "read", "handler"}

\* whether a statement stands between sc.subscribersMu.Lock() and Unlock():
\* the write of isRunning (lines 203-205), the insert of createSubscription
\* (lines 315-317) and the delete of Unsubscribe (lines 458-460) do; the
\* lookups (lines 451, 487) and the range loops (lines 373, 513, 532) do not
HoldsMu(op) == op \in {"setIsRunning", "insert", "delete"}

InitConc ==
    /\ subscriptions = << >>
    /\ conn = 0
    /\ isRunning = FALSE
    /\ ctx = "none"
    /\ retryTimeout = 0
    /\ pc = "idle"
    /\ elapsed = 0
    /\ attempts = 0
    /\ todo = {}
    /\ runResult = "none"
    /\ spawned = 0
    /\ errWaiting = 0
    /\ starts = [u \in Uuids |-> 0]
    /\ nextId = 0
    /\ completed = {}
    /\ dials = 0
    /\ disconnectedCalls = 0
    /\ regPreRun = {}
    /\ cancPreRun = {}
    /\ ev = Event("new", NoId, "nil", 0)
    /\ crashed = FALSE
    /\ createConn \in {"default", "custom"}
    /\ ConcIdle

\* Run() is entered, by a call or from Reset: init() makes a new lifecycle
\* context, lines 210-213
RunEnterC(t) ==
    /\ ~crashed
    /\ touched' = {}
    /\ (t = "run" /\ tpc[t] = "idle") \/ tpc[t] = "rerun"
    /\ ctx' = "live"
    /\ tpc' = [tpc EXCEPT ![t] = "dial"]
    /\ UNCHANGED <<subscriptions, conn, isRunning, retryTimeout, pc,
                   elapsed, attempts, todo, runResult, spawned, errWaiting,
                   starts, nextId, completed, dials, disconnectedCalls,
                   regPreRun, cancPreRun, ev, crashed, createConn, dialers,
                   tres, rconn, queued, nread, pendStarted, sentOn,
                   closedAt>>

\* one turn of the for loop of init(), lines 215-244.  expired: the retry
\* budget is spent when the attempt has failed.
ConnectC(t, dialOk, initOk, expired) ==
    /\ ~crashed
    /\ touched' = IF conn = 0 /\ ~dialOk THEN {} ELSE {"send"}
    /\ tpc[t] = "dial"
    /\ dialOk => dials < MaxConns
    /\ (conn = 0 /\ ~dialOk) => initOk
    /\ LET needDial == conn = 0
           err == (needDial /\ ~dialOk) \/ ~initOk
       IN /\ expired => err
          /\ dialers' = IF needDial THEN dialers \cup {DialFactory(createConn)} ELSE dialers
          /\ conn' = IF needDial /\ dialOk THEN dials + 1 ELSE conn
          /\ dials' = IF needDial /\ dialOk THEN dials + 1 ELSE dials
          /\ IF ~err
               THEN /\ tpc' = [tpc EXCEPT ![t] = "startAll"]
                    /\ tres' = tres
               ELSE IF expired
                 THEN /\ tpc' = [tpc EXCEPT ![t] = "done"]
                      /\ tres' = [tres EXCEPT ![t] = "retryTimeout"]
                 ELSE UNCHANGED <<tpc, tres>>
    /\ UNCHANGED <<subscriptions, isRunning, ctx, retryTimeout, pc,
                   elapsed, attempts, todo, runResult, spawned, errWaiting,
                   starts, nextId, completed, disconnectedCalls, regPreRun,
                   cancPreRun, ev, crashed, createConn, rconn, queued,
                   nread, pendStarted, sentOn, closedAt>>

\* the range loop of Run, lines 373-378: the entries in done are started,
\* and if the send for failed fails it is unsubscribed and Run returns
StartAllC(t, done, failed) ==
    /\ ~crashed
    /\ touched' = IF conn = 0 /\ {k \in Keys : ~subscriptions[k].started} /= {}
                   THEN {"range", "nilconn"}
                   ELSE {"range"}
                        \cup (IF done /= {} \/ failed /= NoId THEN {"send"} ELSE {})
                        \cup (IF failed /= NoId THEN {"lookup", "delete"} ELSE {})
    /\ tpc[t] = "startAll"
    /\ LET unstarted == {k \in Keys : ~subscriptions[k].started}
       IN /\ done \subseteq unstarted
          /\ IF failed = NoId THEN done = unstarted ELSE failed \in unstarted \ done
          /\ IF unstarted /= {} /\ conn = 0
               THEN /\ failed = NoId
                    /\ crashed' = TRUE
                    /\ UNCHANGED <<subscriptions, sentOn, tpc, tres>>
               ELSE /\ crashed' = crashed
                    /\ subscriptions' =
                          [k \in Keys \ {failed} |->
                              IF k \in done THEN Started(subscriptions[k])
                                            ELSE subscriptions[k]]
                    /\ sentOn' = [u \in Uuids |->
                                     IF uuidString(u) \in done THEN conn ELSE sentOn[u]]
                    /\ IF failed = NoId
                         THEN /\ tpc' = [tpc EXCEPT ![t] = "setRunning"]
                              /\ tres' = tres
                         ELSE /\ tpc' = [tpc EXCEPT ![t] = "done"]
                              /\ tres' = [tres EXCEPT ![t] = "sendErr"]
    /\ UNCHANGED <<conn, isRunning, ctx, retryTimeout, pc, elapsed,
                   attempts, todo, runResult, spawned, errWaiting, starts,
                   nextId, completed, dials, disconnectedCalls, regPreRun,
                   cancPreRun, ev, createConn, dialers, rconn, queued,
                   nread, pendStarted, closedAt>>

\* sc.setIsRunning(true), line 379
SetRunningC(t) ==
    /\ ~crashed
    /\ touched' = {"setIsRunning"}
    /\ tpc[t] = "setRunning"
    /\ isRunning' = TRUE
    /\ tpc' = [tpc EXCEPT ![t] = "top"]
    /\ UNCHANGED <<subscriptions, conn, ctx, retryTimeout, pc, elapsed,
                   attempts, todo, runResult, spawned, errWaiting, starts,
                   nextId, completed, dials, disconnectedCalls, regPreRun,
                   cancPreRun, ev, crashed, createConn, dialers, tres,
                   rconn, queued, nread, pendStarted, sentOn, closedAt>>

\* "for sc.isRunning", line 381, and the return after the loop, line 433
LoopTopC(t) ==
    /\ ~crashed
    /\ touched' = {}
    /\ tpc[t] = "top"
    /\ IF isRunning
         THEN /\ tpc' = [tpc EXCEPT ![t] = "select"]
              /\ tres' = tres
         ELSE /\ tpc' = [tpc EXCEPT ![t] = "done"]
              /\ tres' = [tres EXCEPT ![t] = "nil"]
    /\ UNCHANGED <<subscriptions, conn, isRunning, ctx, retryTimeout, pc,
                   elapsed, attempts, todo, runResult, spawned, errWaiting,
                   starts, nextId, completed, dials, disconnectedCalls,
                   regPreRun, cancPreRun, ev, crashed, createConn, dialers,
                   rconn, queued, nread, pendStarted, sentOn, closedAt>>

\* select: case <-sc.context.Done(), line 383
SelCtxDoneC(t) ==
    /\ ~crashed
    /\ touched' = {}
    /\ tpc[t] = "select"
    /\ ctx = "cancelled"
    /\ tpc' = [tpc EXCEPT ![t] = "done"]
    /\ tres' = [tres EXCEPT ![t] = "nil"]
    /\ UNCHANGED <<subscriptions, conn, isRunning, ctx, retryTimeout, pc,
                   elapsed, attempts, todo, runResult, spawned, errWaiting,
                   starts, nextId, completed, dials, disconnectedCalls,
                   regPreRun, cancPreRun, ev, crashed, createConn, dialers,
                   rconn, queued, nread, pendStarted, sentOn, closedAt>>

\* select: case e := <-sc.errorChan, lines 385-390
SelErrChanC(t, policyErr) ==
    /\ ~crashed
    /\ touched' = {}
    /\ tpc[t] = "select"
    /\ errWaiting > 0
    /\ errWaiting' = errWaiting - 1
    /\ IF policyErr
         THEN /\ tpc' = [tpc EXCEPT ![t] = "done"]
              /\ tres' = [tres EXCEPT ![t] = "policyErr"]
         ELSE /\ tpc' = [tpc EXCEPT ![t] = "top"]
              /\ tres' = tres
    /\ UNCHANGED <<subscriptions, conn, isRunning, ctx, retryTimeout, pc,
                   elapsed, attempts, todo, runResult, spawned, starts,
                   nextId, completed, dials, disconnectedCalls, regPreRun,
                   cancPreRun, ev, crashed, createConn, dialers, rconn,
                   queued, nread, pendStarted, sentOn, closedAt>>

\* select: default, taken when no channel is ready; sc.conn is read and
\* ReadJSON called on it, line 394
SelDefaultC(t) ==
    /\ ~crashed
    /\ touched' = IF conn = 0 THEN {"nilconn"} ELSE {"read"}
    /\ tpc[t] = "select"
    /\ ctx /= "cancelled"
    /\ errWaiting = 0
    /\ IF conn = 0
         THEN /\ crashed' = TRUE
              /\ UNCHANGED <<tpc, rconn>>
         ELSE /\ crashed' = crashed
              /\ tpc' = [tpc EXCEPT ![t] = "read"]
              /\ rconn' = [rconn EXCEPT ![t] = conn]
    /\ UNCHANGED <<subscriptions, conn, isRunning, ctx, retryTimeout, pc,
                   elapsed, attempts, todo, runResult, spawned, errWaiting,
                   starts, nextId, completed, dials, disconnectedCalls,
                   regPreRun, cancPreRun, ev, createConn, dialers, tres,
                   queued, nread, pendStarted, sentOn, closedAt>>

\* ReadJSON returns a frame, lines 417-428: a data or error frame starts a
\* handler goroutine, a complete frame unsubscribes
ReadFrameC(t, type, ID, stopOk) ==
    /\ ~crashed
    /\ touched' = IF type \in {"data", "error"} THEN {"lookup"}
                   ELSE IF type /= "complete" THEN {}
                   ELSE IF Registered(subscriptions, ID) THEN {"lookup", "send", "delete"}
                   ELSE {"lookup"}
    /\ tpc[t] = "read"
    /\ rconn[t] = conn
    /\ LET found == type \in {"data", "error"} /\ findSubscription(subscriptions, ID)
           known == type = "complete" /\ Registered(subscriptions, ID)
       IN /\ found => nread < MaxFrames
          /\ ~known => stopOk
          /\ queued' = IF found THEN queued \cup {[n |-> nread + 1, u |-> uuidParse(ID)]}
                                ELSE queued
          /\ nread' = IF found THEN nread + 1 ELSE nread
          /\ subscriptions' = IF type = "complete"
                                THEN UnsubscribeSubs(subscriptions, ID, conn, stopOk)
                                ELSE subscriptions
    /\ tpc' = [tpc EXCEPT ![t] = "top"]
    /\ rconn' = [rconn EXCEPT ![t] = 0]
    /\ UNCHANGED <<conn, isRunning, ctx, retryTimeout, pc, elapsed,
                   attempts, todo, runResult, spawned, errWaiting, starts,
                   nextId, completed, dials, disconnectedCalls, regPreRun,
                   cancPreRun, ev, crashed, createConn, dialers, tres,
                   pendStarted, sentOn, closedAt>>

\* ReadJSON returns an error, lines 394-414
ReadErrC(t, e, policyErr) ==
    /\ ~crashed
    /\ touched' = {}
    /\ tpc[t] = "read"
    /\ policyErr => ReadErrClass(e) = "policy"
    /\ rconn' = [rconn EXCEPT ![t] = 0]
    /\ IF ReadErrClass(e) = "reset"
         THEN /\ tpc' = [tpc EXCEPT ![t] = "reset"]
              /\ tres' = tres
         ELSE IF ReadErrClass(e) = "exit"
           THEN /\ tpc' = [tpc EXCEPT ![t] = "done"]
                /\ tres' = [tres EXCEPT ![t] = "nil"]
           ELSE IF policyErr
             THEN /\ tpc' = [tpc EXCEPT ![t] = "done"]
                  /\ tres' = [tres EXCEPT ![t] = "policyErr"]
             ELSE /\ tpc' = [tpc EXCEPT ![t] = "top"]
                  /\ tres' = tres
    /\ UNCHANGED <<subscriptions, conn, isRunning, ctx, retryTimeout, pc,
                   elapsed, attempts, todo, runResult, spawned, errWaiting,
                   starts, nextId, completed, dials, disconnectedCalls,
                   regPreRun, cancPreRun, ev, crashed, createConn, dialers,
                   queued, nread, pendStarted, sentOn, closedAt>>

\* Reset(), lines 508-525, called by Run or by the caller's goroutine: up
\* to sc.cancel(); the call of Run that follows is RunEnterC
ResetC(t) ==
    /\ ~crashed
    /\ touched' = IF ~isRunning THEN {}
                   ELSE {"range"} \cup (IF conn /= 0 THEN {"send"} ELSE {})
    /\ tpc[t] = "reset" \/ (t = "rst" /\ tpc[t] = "idle")
    /\ IF ~isRunning
         THEN /\ tpc' = [tpc EXCEPT ![t] = "done"]
              /\ tres' = [tres EXCEPT ![t] = "nil"]
              /\ UNCHANGED <<subscriptions, conn, ctx>>
         ELSE /\ subscriptions' = ResetSubs(subscriptions)
              /\ conn' = 0
              /\ ctx' = "cancelled"
              /\ tpc' = [tpc EXCEPT ![t] = "rerun"]
              /\ tres' = tres
    /\ UNCHANGED <<isRunning, retryTimeout, pc, elapsed, attempts, todo,
                   runResult, spawned, errWaiting, starts, nextId,
                   completed, dials, disconnectedCalls, regPreRun,
                   cancPreRun, ev, crashed, createConn, dialers, rconn,
                   queued, nread, pendStarted, sentOn, closedAt>>

\* a handler goroutine is scheduled: fn(message) begins, and an error it
\* returns is sent on sc.errorChan, lines 359-363
HandlerBeginC(f, retErr) ==
    /\ ~crashed
    /\ touched' = {"handler"}
    /\ f \in queued
    /\ retErr => errWaiting < MaxHandlers
    /\ queued' = queued \ {f}
    /\ errWaiting' = IF retErr THEN errWaiting + 1 ELSE errWaiting
    /\ UNCHANGED <<subscriptions, conn, isRunning, ctx, retryTimeout, pc,
                   elapsed, attempts, todo, runResult, spawned, starts,
                   nextId, completed, dials, disconnectedCalls, regPreRun,
                   cancPreRun, ev, crashed, createConn, dialers, tpc, tres,
                   rconn, nread, pendStarted, sentOn, closedAt>>

\* createSubscription, lines 301-309: a new id and record, and the test
\* "sc.isRunning && sc.conn != nil"
SubBeginC ==
    /\ ~crashed
    /\ touched' = {}
    /\ tpc["sub"] = "idle"
    /\ nextId < MaxIds
    /\ nextId' = nextId + 1
    /\ pendStarted' = FALSE
    /\ tpc' = [tpc EXCEPT !["sub"] = IF isRunning /\ conn /= 0 THEN "send" ELSE "insert"]
    /\ UNCHANGED <<subscriptions, conn, isRunning, ctx, retryTimeout, pc,
                   elapsed, attempts, todo, runResult, spawned, errWaiting,
                   starts, completed, dials, disconnectedCalls, regPreRun,
                   cancPreRun, ev, crashed, createConn, dialers, tres,
                   rconn, queued, nread, sentOn, closedAt>>

\* createSubscription, line 310: startSubscription writes the start frame
\* on sc.conn and marks the record started
SubSendC(ok) ==
    /\ ~crashed
    /\ touched' = IF conn = 0 THEN {"nilconn"} ELSE {"send"}
    /\ tpc["sub"] = "send"
    /\ IF conn = 0
         THEN /\ ok
              /\ crashed' = TRUE
              /\ UNCHANGED <<pendStarted, sentOn, tpc>>
         ELSE /\ crashed' = crashed
              /\ pendStarted' = ok
              /\ sentOn' = IF ok THEN [sentOn EXCEPT ![nextId] = conn] ELSE sentOn
              /\ tpc' = [tpc EXCEPT !["sub"] = IF ok THEN "insert" ELSE "idle"]
    /\ UNCHANGED <<subscriptions, conn, isRunning, ctx, retryTimeout, pc,
                   elapsed, attempts, todo, runResult, spawned, errWaiting,
                   starts, nextId, completed, dials, disconnectedCalls,
                   regPreRun, cancPreRun, ev, createConn, dialers, tres,
                   rconn, queued, nread, closedAt>>

\* createSubscription, lines 315-317: the record goes into the registry
SubInsertC ==
    /\ ~crashed
    /\ touched' = {"insert"}
    /\ tpc["sub"] = "insert"
    /\ subscriptions' = Insert(subscriptions, uuidString(nextId),
                               [started |-> pendStarted, restarting |-> FALSE])
    /\ tpc' = [tpc EXCEPT !["sub"] = "idle"]
    /\ UNCHANGED <<conn, isRunning, ctx, retryTimeout, pc, elapsed,
                   attempts, todo, runResult, spawned, errWaiting, starts,
                   nextId, completed, dials, disconnectedCalls, regPreRun,
                   cancPreRun, ev, crashed, createConn, dialers, tres,
                   rconn, queued, nread, pendStarted, sentOn, closedAt>>

\* Close(), lines 530-542, when every Unsubscribe of its loop returns nil:
\* up to "sc.conn = nil"
CloseC(closeOk) ==
    /\ ~crashed
    /\ touched' = {"setIsRunning", "range"}
                   \cup (IF Keys /= {} THEN {"lookup", "delete"} ELSE {})
                   \cup (IF conn /= 0 THEN {"send"} ELSE {})
    /\ tpc["cls"] = "idle"
    /\ (conn = 0) => closeOk
    /\ isRunning' = FALSE
    /\ subscriptions' = << >>
    /\ conn' = 0
    /\ tpc' = [tpc EXCEPT !["cls"] = "cancel"]
    /\ closedAt' = tpc["run"]
    /\ UNCHANGED <<ctx, crashed, retryTimeout, pc, elapsed, attempts, todo,
                   runResult, spawned, errWaiting, starts, nextId,
                   completed, dials, disconnectedCalls, regPreRun,
                   cancPreRun, ev, createConn, dialers, tres, rconn,
                   queued, nread, pendStarted, sentOn>>

\* Close(), line 543: sc.cancel(), which is nil before the first Run
CloseCancelC ==
    /\ ~crashed
    /\ touched' = {}
    /\ tpc["cls"] = "cancel"
    /\ IF ctx = "none"
         THEN /\ crashed' = TRUE
              /\ UNCHANGED <<ctx, tpc>>
         ELSE /\ crashed' = crashed
              /\ ctx' = "cancelled"
              /\ tpc' = [tpc EXCEPT !["cls"] = "done"]
    /\ UNCHANGED <<subscriptions, conn, isRunning, closedAt, retryTimeout,
                   pc, elapsed, attempts, todo, runResult, spawned,
                   errWaiting, starts, nextId, completed, dials,
                   disconnectedCalls, regPreRun, cancPreRun, ev,
                   createConn, dialers, tres, rconn, queued, nread,
                   pendStarted, sentOn>>

\* Close() when the stop frame of one Unsubscribe fails, lines 533-536
CloseStopFailC(done, failed) ==
    /\ ~crashed
    /\ touched' = {"setIsRunning", "range", "lookup", "send", "delete"}
    /\ tpc["cls"] = "idle"
    /\ conn /= 0
    /\ failed \in Keys
    /\ done \subseteq Keys \ {failed}
    /\ isRunning' = FALSE
    /\ subscriptions' = [k \in Keys \ (done \cup {failed}) |-> subscriptions[k]]
    /\ ctx' = "cancelled"
    /\ tpc' = [tpc EXCEPT !["cls"] = "done"]
    /\ closedAt' = tpc["run"]
    /\ UNCHANGED <<conn, retryTimeout, pc, elapsed, attempts, todo,
                   runResult, spawned, errWaiting, starts, nextId,
                   completed, dials, disconnectedCalls, regPreRun,
                   cancPreRun, ev, crashed, createConn, dialers, tres,
                   rconn, queued, nread, pendStarted, sentOn>>

\* the goroutine that calls Run, with callers of Subscribe and Close and
\* the handler goroutines
NextConc ==
    \/ RunEnterC("run")
    \/ \E dialOk \in BOOLEAN, initOk \in BOOLEAN, expired \in BOOLEAN :
          ConnectC("run", dialOk, initOk, expired)
    \/ \E done \in SUBSET CanonIds, failed \in CanonIds \cup {NoId} :
          StartAllC("run", done, failed)
    \/ SetRunningC("run")
    \/ LoopTopC("run")
    \/ SelCtxDoneC("run")
    \/ \E policyErr \in BOOLEAN : SelErrChanC("run", policyErr)
    \/ SelDefaultC("run")
    \/ \E type \in FrameTypes, ID \in WireIds, stopOk \in BOOLEAN :
          ReadFrameC("run", type, ID, stopOk)
    \/ \E e \in ReadErrs, policyErr \in BOOLEAN : ReadErrC("run", e, policyErr)
    \/ ResetC("run")
    \/ \E f \in [n : 1..MaxFrames, u : Uuids], retErr \in BOOLEAN : HandlerBeginC(f, retErr)
    \/ SubBeginC
    \/ \E ok \in BOOLEAN : SubSendC(ok)
    \/ SubInsertC
    \/ \E closeOk \in BOOLEAN : CloseC(closeOk)
    \/ CloseCancelC
    \/ \E done \in SUBSET CanonIds, failed \in CanonIds : CloseStopFailC(done, failed)

\* the goroutine that calls Run and a goroutine that calls Reset
NextReset ==
    \/ \E t \in PumpTasks : RunEnterC(t)
    \/ \E t \in PumpTasks, dialOk \in BOOLEAN, initOk \in BOOLEAN, expired \in BOOLEAN :
          ConnectC(t, dialOk, initOk, expired)
    \/ \E t \in PumpTasks, done \in SUBSET CanonIds, failed \in CanonIds \cup {NoId} :
          StartAllC(t, done, failed)
    \/ \E t \in PumpTasks : SetRunningC(t)
    \/ \E t \in PumpTasks : LoopTopC(t)
    \/ \E t \in PumpTasks : SelCtxDoneC(t)
    \/ \E t \in PumpTasks : SelDefaultC(t)
    \/ \E t \in PumpTasks, type \in FrameTypes, ID \in WireIds, stopOk \in BOOLEAN :
          ReadFrameC(t, type, ID, stopOk)
    \/ \E t \in PumpTasks, e \in ReadErrs, policyErr \in BOOLEAN : ReadErrC(t, e, policyErr)
    \/ \E t \in PumpTasks : ResetC(t)
    \/ SubBeginC
    \/ \E ok \in BOOLEAN : SubSendC(ok)
    \/ SubInsertC

allvars == <<vars, cvars>>

SpecConc == InitConc /\ [][NextConc]_allvars

\* the steps of the goroutine that runs Run
PumpStepC ==
    \/ RunEnterC("run")
    \/ \E dialOk \in BOOLEAN, initOk \in BOOLEAN, expired \in BOOLEAN :
          ConnectC("run", dialOk, initOk, expired)
    \/ \E done \in SUBSET CanonIds, failed \in CanonIds \cup {NoId} :
          StartAllC("run", done, failed)
    \/ SetRunningC("run")
    \/ LoopTopC("run")
    \/ SelCtxDoneC("run")
    \/ \E policyErr \in BOOLEAN : SelErrChanC("run", policyErr)
    \/ SelDefaultC("run")
    \/ \E type \in FrameTypes, ID \in WireIds, stopOk \in BOOLEAN :
          ReadFrameC("run", type, ID, stopOk)
    \/ \E e \in ReadErrs, policyErr \in BOOLEAN : ReadErrC("run", e, policyErr)
    \/ ResetC("run")

\* the steps of a call of Subscribe after its first
SubStepC ==
    \/ \E ok \in BOOLEAN : SubSendC(ok)
    \/ SubInsertC

\* SpecConc with a scheduler that lets every goroutine that can take a step
\* take one: the Run goroutine does not stall (ReadJSON returns while the
\* server sends frames), a Subscribe and a Close under way return
SpecConcFair ==
    /\ InitConc
    /\ [][NextConc]_allvars
    /\ WF_allvars(PumpStepC)
    /\ WF_allvars(SubStepC)
    /\ WF_allvars(CloseCancelC)

SpecReset == InitConc /\ [][NextReset]_allvars

\* ==================================================================== C1
\* C1: no start frame is written before Run is called; when the first
\* start-all pass of Run is over (no connection was closed yet), every
\* subscription registered before Run and still in the registry has had
\* exactly one start frame written and is started; a subscription cancelled
\* before Run never has a start frame written.
C1_StartOncePerPreRunSub ==
    /\ pc = "idle" => \A u \in Uuids : StartsOf(uuidString(u)) = 0
    /\ (ev.op = "startAllDone" /\ closedConns = {}) =>
          \A k \in Keys \cap regPreRun :
              StartsOf(k) = 1 /\ subscriptions[k].started
    /\ \A k \in cancPreRun : StartsOf(k) = 0

\* two subscriptions and a cancellation before Run, then the pass completes
C1_Witness ==
    /\ ev.op = "startAllDone"
    /\ closedConns = {}
    /\ Keys \cap regPreRun /= {}
    /\ cancPreRun /= {}
    /\ \E k \in Keys \cap regPreRun : StartsOf(k) = 1

\* ==================================================================== C3
\* C3 as stated: no connect attempt begins once the time elapsed since the
\* start of init() exceeds retryTimeout (while init() is in its loop the next
\* attempt begins at elapsed); when init() gives up, onDisconnected has run
\* once and Run has returned the error.
C3_NoAttemptPastBudget ==
    /\ pc = "init" => elapsed <= retryTimeout
    /\ (ev.op = "init" /\ ev.ret = "giveup") =>
          /\ pc = "done" /\ runResult = "retryTimeout"
          /\ disconnectedCalls = 1

\* C3 amended: the budget is tested after each failed attempt and before the
\* sleep.  A further attempt is made only if the failed attempt ended within
\* retryTimeout, and it begins SleepInterval after that (so at most
\* SleepInterval past the budget); init() gives up at the first failure that
\* ends past the budget, after at most retryTimeout / SleepInterval + 2
\* attempts, with onDisconnected reached exactly once and Run returning the
\* retry-timeout error.
C3_RetryUntilFailurePastBudget ==
    /\ (pc = "init" /\ attempts = 0) => elapsed = 0
    /\ (pc = "init" /\ attempts > 0) =>
          /\ elapsed >= attempts * SleepInterval
          /\ elapsed <= attempts * (SleepInterval + MaxAttemptDur)
          /\ elapsed - SleepInterval <= retryTimeout
    /\ attempts * SleepInterval <= retryTimeout + 2 * SleepInterval
    /\ (ev.op = "init" /\ ev.ret = "giveup") =>
          /\ elapsed > retryTimeout
          /\ attempts >= 1
          /\ pc = "done" /\ runResult = "retryTimeout"
    /\ disconnectedCalls = IF runResult = "retryTimeout" THEN 1 ELSE 0
    /\ runResult = "retryTimeout" => pc = "done"

\* every attempt failed, more than one was made, and init() gave up
C3_Witness ==
    /\ ev.op = "init" /\ ev.ret = "giveup"
    /\ attempts >= 2
    /\ disconnectedCalls = 1

\* ==================================================================== C2
\* C2: Reset keeps every registry entry and leaves it started = FALSE,
\* restarting = TRUE; an entry so flagged stays in the registry unless it is
\* cancelled (Unsubscribe, Close, complete), keeps these flags until the
\* start-all pass of the next Run replays it, and the replay writes exactly
\* one start frame on the new connection and leaves it started; when that
\* pass is over no entry is still waiting for its replay.
C2_Step ==
    /\ ev'.op = "Reset" =>
          /\ DOMAIN subscriptions' = Keys
          /\ \A k \in Keys : /\ ~subscriptions'[k].started
                             /\ subscriptions'[k].restarting
    /\ \A k \in Keys : subscriptions[k].restarting =>
          /\ k \in DOMAIN subscriptions' \/ ev'.op \in {"Unsubscribe", "Close", "complete"}
          /\ k \in DOMAIN subscriptions' =>
                \/ /\ subscriptions'[k].restarting
                   /\ ~subscriptions'[k].started
                \/ /\ ev'.op = "start" /\ ev'.id = k
                   /\ subscriptions'[k].started
                   /\ ~subscriptions'[k].restarting
                   /\ conn' /= 0 /\ conn' \notin closedConns'
                   /\ starts'[k.u] = 1
    /\ ev'.op = "startAllDone" =>
          \A k \in DOMAIN subscriptions' : ~subscriptions'[k].restarting

C2_ReplayAfterDrop == [][C2_Step]_vars

\* ==================================================================== C4
\* C4: a Subscribe made while isRunning and a connection is set writes one
\* frame; if the write succeeds the new id is in the registry, started, and
\* if it fails the error is returned and the registry is as before.  A
\* Subscribe made otherwise writes nothing, succeeds and inserts the new id
\* with started = FALSE.  No other entry changes.
C4_Step ==
    ev'.op = "Subscribe" =>
       LET id == ev'.id
           subs1 == subscriptions'
       IN /\ id \notin Keys
          /\ (isRunning /\ conn /= 0) =>
                /\ ev'.w = 1
                /\ ev'.ret = "nil" =>
                      /\ DOMAIN subs1 = Keys \cup {id}
                      /\ subs1[id].started
                      /\ \A k \in Keys : subs1[k] = subscriptions[k]
                /\ ev'.ret = "err" => subs1 = subscriptions
          /\ ~(isRunning /\ conn /= 0) =>
                /\ ev'.w = 0
                /\ ev'.ret = "nil"
                /\ DOMAIN subs1 = Keys \cup {id}
                /\ ~subs1[id].started
                /\ \A k \in Keys : subs1[k] = subscriptions[k]

C4_RegisterSendsOrDefers == [][C4_Step]_vars

\* a Subscribe on a running, connected client whose start frame failed,
\* with another subscription registered
C4_Witness ==
    /\ ev.op = "Subscribe" /\ ev.ret = "err" /\ ev.w = 1
    /\ Keys /= {}
    /\ isRunning /\ conn /= 0

\* ==================================================================== C5
\* C5: Unsubscribe of an id that is not a key of the registry returns the
\* not-found error, writes no frame and changes neither the registry nor
\* the connection.
C5_Step ==
    (ev'.op = "Unsubscribe" /\ ev'.id \notin Keys) =>
        /\ ev'.ret = "notfound"
        /\ ev'.w = 0
        /\ subscriptions' = subscriptions
        /\ conn' = conn
        /\ closedConns' = closedConns

C5_UnsubscribeUnknown == [][C5_Step]_vars

\* an unknown id was cancelled while a subscription is registered and a
\* connection is open
C5_Witness ==
    /\ ev.op = "Unsubscribe" /\ ev.ret = "notfound"
    /\ Keys /= {}
    /\ conn /= 0

\* ==================================================================== C6
\* C6: Unsubscribe of an id that is a key of the registry removes exactly
\* that entry whatever the stop frame's send returned, and writes a stop
\* frame if and only if a connection is set; the send error is what it
\* returns.
C6_Step ==
    (ev'.op = "Unsubscribe" /\ ev'.id \in Keys) =>
        /\ DOMAIN subscriptions' = Keys \ {ev'.id}
        /\ \A k \in Keys \ {ev'.id} : subscriptions'[k] = subscriptions[k]
        /\ ev'.w = (IF conn /= 0 THEN 1 ELSE 0)
        /\ ev'.ret \in {"nil", "err"}
        /\ ev'.ret = "err" => conn /= 0
        /\ conn' = conn

C6_UnsubscribeKnown == [][C6_Step]_vars

\* the stop frame failed, the entry is gone and another one is left
C6_Witness ==
    /\ ev.op = "Unsubscribe" /\ ev.ret = "err" /\ ev.w = 1
    /\ ev.id \notin Keys
    /\ Keys /= {}

\* ==================================================================== C7
\* C7 as stated: a data or error frame starts a handler only if the id
\* string it carries is a key of the registry; otherwise nothing happens.
C7_OrigStep ==
    /\ spawned' > spawned => (ev'.op \in {"data", "error"} /\ ev'.id \in Keys)
    /\ (ev'.op \in {"data", "error"} /\ ev'.id \notin Keys) =>
          /\ spawned' = spawned
          /\ subscriptions' = subscriptions
          /\ pc' = pc /\ errWaiting' = errWaiting

C7_HandlerOnlyForRegisteredId == [][C7_OrigStep]_vars

\* C7 amended: a data or error frame starts a handler only if the id it
\* carries parses as a uuid and the registry has a key for that uuid (the
\* frame's id need not be spelled as the key is); a frame whose id denotes
\* no registered uuid starts no handler, raises no error and leaves the
\* registry as it is.
SameUuidRegistered(ID) ==
    /\ ID.form \in {"canon", "alt"}
    /\ \E k \in Keys : k.u = ID.u

C7_AmendedStep ==
    /\ spawned' > spawned =>
          /\ ev'.op \in {"data", "error"}
          /\ SameUuidRegistered(ev'.id)
          /\ spawned' = spawned + 1
    /\ (ev'.op \in {"data", "error"} /\ ~SameUuidRegistered(ev'.id)) =>
          /\ spawned' = spawned
          /\ subscriptions' = subscriptions
          /\ pc' = pc /\ errWaiting' = errWaiting /\ runResult' = runResult

C7_HandlerOnlyForRegisteredUuid == [][C7_AmendedStep]_vars

\* a data frame for an id that was handed out and is no longer registered
\* is dropped while another subscription is registered
C7_Witness ==
    /\ ev.op = "data" /\ ev.ret = "dropped"
    /\ ev.id.form = "canon" /\ ev.id.u <= nextId
    /\ ev.id \notin Keys
    /\ Keys /= {}

\* ==================================================================== C8
\* C8: a complete frame for a key of the registry removes that entry and no
\* other; a complete frame for an id that is not a key (a second complete
\* included) changes nothing and writes no frame; in both cases the error
\* policy is not called and the loop goes on.
C8_Step ==
    ev'.op = "complete" =>
        /\ ev'.id \in Keys =>
              /\ DOMAIN subscriptions' = Keys \ {ev'.id}
              /\ \A k \in Keys \ {ev'.id} : subscriptions'[k] = subscriptions[k]
        /\ ev'.id \notin Keys =>
              /\ subscriptions' = subscriptions
              /\ ev'.w = 0
        /\ pc = "loop" /\ pc' = "loop"
        /\ runResult' = runResult
        /\ errWaiting' = errWaiting
        /\ conn' = conn /\ isRunning' = isRunning

C8_CompleteIdempotent == [][C8_Step]_vars

\* the second complete frame for a subscription that the first one removed
C8_Witness ==
    /\ ev.op = "complete" /\ ev.ret = "notfound"
    /\ ev.id \in completed
    /\ pc = "loop"

\* ==================================================================== C9
\* C9: when ReadJSON fails with a normal closure status, Run returns nil,
\* Reset is not called, no connection attempt follows and no frame is
\* written.
C9_NormalClosureExits ==
    ev.status = "normal" =>
        /\ ev.op = "readExit"
        /\ pc = "done" /\ runResult = "nil"
        /\ ev.w = 0

\* =================================================================== C10
\* C10: when Close has returned, isRunning is FALSE, the registry is empty,
\* every connection dialled has been closed, sc.conn is nil and the
\* lifecycle context is cancelled.
C10_CloseTearsDown ==
    (ev.op = "Close" /\ ev.ret /= "panic") =>
        /\ ~isRunning
        /\ Keys = {}
        /\ conn = 0
        /\ \A c \in 1..dials : c \in closedConns
        /\ ctx = "cancelled"

\* =================================================================== C12
\* C12: Run returns a non-nil error only when init() has used up its retry
\* budget or when the error policy returned an error; any other failure is
\* absorbed.
C12_RunErrorsOnlyFromBudgetOrPolicy ==
    runResult \in {"none", "nil", "retryTimeout", "policyErr"}

\* =================================================================== C13
\* the steps in which the pump has called conn.ReadJSON
ReadOps == {"data", "error", "complete", "connection_ack", "ka", "Reset",
            "readExit", "readErr"}

\* C13: an error a handler returns is put on sc.errorChan and leaves it only
\* by the pump handing it to the error policy; the pump reads no frame
\* while an error waits; if the policy returns an error Run returns it, and
\* if there is no policy or it returns nil the loop goes on with the
\* registry, the connection and the running flag as they were.
C13_Step ==
    /\ (ev'.op = "handler" /\ ev'.ret = "err") => errWaiting' = errWaiting + 1
    /\ errWaiting' < errWaiting =>
          /\ ev'.op = "errChan"
          /\ errWaiting' = errWaiting - 1
    /\ ev'.op \in ReadOps => errWaiting = 0
    /\ ev'.op = "errChan" =>
          /\ errWaiting > 0
          /\ pc = "loop"
          /\ ev'.ret = "err" => (pc' = "done" /\ runResult' = "policyErr")
          /\ ev'.ret = "nil" => (pc' = "loop" /\ runResult' = runResult)
          /\ subscriptions' = subscriptions
          /\ conn' = conn
          /\ isRunning' = isRunning

C14_PolicyErrorTerminatesConn ==
    runResult = "policyErr" =>
        /\ conn = 0
        /\ \A c \in 1..dials : c \in closedConns

\* =================================================================== C18
\* C18: a key leaves the registry only in an Unsubscribe or a Close of the
\* caller or when a complete frame for it is read; a failed start frame in
\* the start-all pass of Run and a Reset remove nothing.
C18_Step ==
    (\E k \in Keys : k \notin DOMAIN subscriptions') =>
        ev'.op \in {"Unsubscribe", "Close", "complete"}

C18_RemovedOnlyByCancelOrComplete == [][C18_Step]_vars

\* =================================================================== C19
\* C19: one turn of the loop of Run takes the error channel only when the
\* lifecycle context is not cancelled, calls ReadJSON only when the
\* context is live and no handler error waits, and when it finds the
\* context cancelled it returns nil.
C19_Step ==
    /\ ev'.op = "errChan" => ctx /= "cancelled"
    /\ ev'.op \in ReadOps => (ctx = "live" /\ errWaiting = 0)
    /\ ev'.op = "ctxDone" => (ctx = "cancelled" /\ pc' = "done" /\ runResult' = "nil")

C19_StrictSelectPriority == [][C19_Step]_vars

\* =================================================================== C11
\* C11: when Close was called while the Run goroutine was inside its loop,
\* Run does not go back into init() (no connect attempt, no second pass
\* through Run) and what it returns is nil.
C11_CloseStopsRun ==
    closedAt \in LoopPcs =>
        /\ tpc["run"] \notin {"rerun", "dial", "startAll", "setRunning"}
        /\ tres["run"] \in {"none", "nil"}

\* =================================================================== C15
\* C15: once WithWebSocket has installed a constructor, every connection
\* init() obtains, the first and each one after a Reset, comes from that
\* constructor and the default dialer is never called.
C15_ConnFromInjectedFactory ==
    createConn = "custom" => dialers \subseteq {"custom"}

\* =================================================================== C16
\* C16: the handlers of one subscription begin in the order the pump read
\* their frames: a handler never begins while the handler of an earlier
\* frame of the same subscription has not begun.
C16_Step ==
    \A f \in queued \ queued' :
        ~\E g \in queued : g.u = f.u /\ g.n < f.n

C16_HandlersBeginInReadOrder == [][C16_Step]_allvars

\* =================================================================== C17
\* C17: every registry entry with started = TRUE has had its start frame
\* written on the connection sc.conn holds now, in every interleaving of
\* Subscribe with Reset and the reconnect.
C17_StartedOnCurrentConn ==
    \A k \in Keys :
        subscriptions[k].started => (conn /= 0 /\ sentOn[k.u] = conn)

\* =================================================================== C20
\* C20: at most one goroutine is inside the loop of Run, and so at most
\* one is blocked in ReadJSON, also when another goroutine calls Reset
\* while Run executes.
C20_OnePumpLoop ==
    /\ ~(tpc["run"] \in LoopPcs /\ tpc["rst"] \in LoopPcs)
    /\ ~(tpc["run"] = "read" /\ tpc["rst"] = "read")

\* =================================================================== C21
\* C21: every statement a step executes on the subscription registry
\* (lookup, iteration, insert, delete) stands inside the registry lock, and
\* no socket send, socket read or handler call is made with the lock held.
C21_RegistryUnderLock ==
    \A op \in touched :
        /\ op \in RegistryOps => HoldsMu(op)
        /\ op \in IoOps => ~HoldsMu(op)

\* =================================================================== C22
\* C22: no step of the pump, Subscribe, Reset or Close calls WriteJSON or
\* ReadJSON on sc.conn after sc.conn has been set to nil.
C22_NoUseOfNilConn == "nilconn" \notin touched

\* =================================================================== C23
\* C23: a subscription that Subscribe has registered and that is still in
\* the registry without its start frame sent, while Run is in its loop on a
\* connection, eventually has the frame sent (started = TRUE), whatever the
\* interleaving of the registration with the startup of Run.  The entry
\* leaving the registry and Run leaving its loop discharge the obligation.
C23_Pending(k) ==
    /\ k \in Keys
    /\ ~subscriptions[k].started
    /\ tpc["run"] \in LoopPcs
    /\ isRunning
    /\ conn /= 0
    /\ ~crashed

C23_Settled(k) ==
    \/ k \notin Keys
    \/ subscriptions[k].started
    \/ tpc["run"] \notin LoopPcs
    \/ crashed

C23_RegisteredIsStarted ==
    \A k \in CanonIds : C23_Pending(k) ~> C23_Settled(k)

====
